---- MODULE Spec2Model ----
(***************************************************************************)
(* Model of the calico_ippool resource of terraform-provider-calico:       *)
(* the schema rules (validation, ForceNew, ConflictsWith), the field       *)
(* translation between the resource data and the IPPool object, and the    *)
(* Create / Read / Update / Delete handlers with their remote calls and    *)
(* the lock taken by getIPPool.                                            *)
(*                                                                         *)
(* Three specifications share the module:                                  *)
(*   ModeSpec  getIPIPMode / getVXLANMode applied to arbitrary strings     *)
(*   AnnoSpec  validateAnnotations iterating over an annotation map        *)
(*   Spec      the lifecycle handlers of several resource instances        *)
(*             running concurrently against one remote store               *)
(***************************************************************************)
EXTENDS Integers, Sequences, FiniteSets, TLC

VARIABLES
    \* ---- Spec: the lifecycle handlers
    pc,         \* per instance: position inside the running handler
    op,         \* per instance: the handler the framework is running
    d,          \* per instance: *schema.ResourceData (id + attributes)
    diags,      \* per instance: diag.Diagnostics returned by the handler
    fetched,    \* per instance: (r, err) of the last getIPPool
    ippool,     \* per instance: the calicov3.IPPool built for Create/Update
    calls,      \* per instance: remote calls issued by the running handler
    tookLock,   \* per instance: the running handler has taken the lock
    dBefore,    \* per instance: d as it was when the handler was entered
    fresh,      \* per instance: {data submitted to Create} while the name
                \* has not been written since, {} otherwise
    remote,     \* the remote store: name -> IPPool object or Absent
    nextRV,     \* the remote store's next resource version
    lock,       \* holder of the Meta lock, or NoOne
    \* ---- ModeSpec
    modeIn,     \* <<ipip_mode string, vxlan_mode string>>
    modeOut,    \* <<IPIPMode, VXLANMode>> computed so far (Unset before)
    \* ---- AnnoSpec
    annIn,      \* the annotation map handed to validateAnnotations
    annTodo,    \* keys the range loop has not visited yet
    annEs,      \* es: the errors appended so far
    annPc       \* "loop" or "returned"

lifeVars == <<pc, op, d, diags, fetched, ippool, calls, tookLock, dBefore,
              fresh, remote, nextRV, lock>>
modeVars == <<modeIn, modeOut>>
annVars == <<annIn, annTodo, annEs, annPc>>
vars == <<lifeVars, modeVars, annVars>>

Unset == "<unset>"
NoOne == "<none>"

(***************************************************************************)
(* Mode translation                                                        *)
(***************************************************************************)

\* calicov3.IPIPMode / calicov3.VXLANMode values
ModeAlways == "Always"
ModeCrossSubnet == "CrossSubnet"
ModeNever == "Never"
Modes == {ModeAlways, ModeCrossSubnet, ModeNever}

\* Inputs the translation is tried on: the three spellings the schema
\* accepts, other casings, the empty string and an unrelated word.
ModeStrings ==
    {"Always", "CrossSubnet", "Never", "", "always", "ALWAYS",
     "crosssubnet", "Sometimes"}

\* strings.EqualFold on the strings above
FoldMode(s) ==
    CASE s \in {"Always", "always", "ALWAYS"} -> "always"
      [] s \in {"CrossSubnet", "crosssubnet"} -> "crosssubnet"
      [] s = "Never" -> "never"
      [] OTHER -> s

\* A translation that matches case-insensitively.
getIPIPMode_Fold(mode) ==
    CASE FoldMode(mode) = "always" -> ModeAlways
      [] FoldMode(mode) = "crosssubnet" -> ModeCrossSubnet
      [] OTHER -> ModeNever

getIPIPMode(mode) ==
    CASE mode = "Always" -> ModeAlways
      [] mode = "CrossSubnet" -> ModeCrossSubnet
      [] OTHER -> ModeNever

getVXLANMode(mode) ==
    CASE mode = "Always" -> ModeAlways
      [] mode = "CrossSubnet" -> ModeCrossSubnet
      [] OTHER -> ModeNever

(***************************************************************************)
(* Annotation validation                                                   *)
(***************************************************************************)

\* Strings that are inspected character by character (annotation keys) are
\* sequences of one-character strings.
MaxKeyLen == 2
MaxKeys == 2
Alphabet == {"a", "B", "-", "/"}

SeqsUpTo(S, n) == UNION {[1..k -> S] : k \in 0..n}
Keys == SeqsUpTo(Alphabet, MaxKeyLen)

\* strings.ToLower
LowerChar(c) == IF c = "B" THEN "b" ELSE c
ToLower(s) == [k \in 1..Len(s) |-> LowerChar(s[k])]

\* character classes of the regular expressions of k8s.io/apimachinery
\* util/validation, restricted to the characters that occur
AlnumChars == {"a", "b", "B"}
LowerAlnumChars == {"a", "b"}
QualifiedMiddleChars == AlnumChars \cup {"-", "_", "."}
LabelMiddleChars == LowerAlnumChars \cup {"-"}

RECURSIVE Split(_, _)
\* strings.Split(s, sep) for a one-character separator
Split(s, sep) ==
    IF \A k \in 1..Len(s) : s[k] # sep
    THEN <<s>>
    ELSE LET at == CHOOSE k \in 1..Len(s) :
                       s[k] = sep /\ \A j \in 1..(k - 1) : s[j] # sep
         IN <<SubSeq(s, 1, at - 1)>> \o Split(SubSeq(s, at + 1, Len(s)), sep)

\* qualifiedNameRegexp: ([A-Za-z0-9][-A-Za-z0-9_.]*)?[A-Za-z0-9]
MatchesQualifiedName(s) ==
    /\ Len(s) >= 1
    /\ s[1] \in AlnumChars
    /\ s[Len(s)] \in AlnumChars
    /\ \A k \in 1..Len(s) : s[k] \in QualifiedMiddleChars

\* dns1123Label: [a-z0-9]([-a-z0-9]*[a-z0-9])?
MatchesDNS1123Label(s) ==
    /\ Len(s) >= 1
    /\ s[1] \in LowerAlnumChars
    /\ s[Len(s)] \in LowerAlnumChars
    /\ \A k \in 1..Len(s) : s[k] \in LabelMiddleChars

qualifiedNameMaxLength == 63
DNS1123SubdomainMaxLength == 253

\* validation.IsDNS1123Subdomain: labels separated by dots
IsDNS1123Subdomain(s) ==
    (IF Len(s) > DNS1123SubdomainMaxLength THEN <<"too long">> ELSE <<>>)
    \o (IF \A k \in 1..Len(Split(s, ".")) :
               MatchesDNS1123Label(Split(s, ".")[k])
        THEN <<>>
        ELSE <<"not a DNS-1123 subdomain">>)

PrefixEach(msgs, prefix) == [k \in 1..Len(msgs) |-> prefix \o msgs[k]]

\* validation.IsQualifiedName: the list of error strings for value
IsQualifiedName(value) ==
    LET parts == Split(value, "/")
        name == parts[Len(parts)]
        prefixErrs ==
            IF Len(parts) = 1 THEN <<>>
            ELSE IF Len(parts[1]) = 0 THEN <<"prefix part must be non-empty">>
            ELSE PrefixEach(IsDNS1123Subdomain(parts[1]), "prefix part ")
        lengthErrs ==
            IF Len(name) = 0 THEN <<"name part must be non-empty">>
            ELSE IF Len(name) > qualifiedNameMaxLength
                 THEN <<"name part too long">>
                 ELSE <<>>
        regexErrs ==
            IF MatchesQualifiedName(name) THEN <<>>
            ELSE <<"name part must be a qualified name">>
    IN IF Len(parts) > 2
       THEN <<"a qualified name must have at most one '/'">>
       ELSE prefixErrs \o lengthErrs \o regexErrs

\* the errors validateAnnotations appends for one key k of the map:
\* fmt.Errorf("%s (%q) %s", key, k, e) for every e, recorded as (k, e)
KeyErrors(k) ==
    LET errors == IsQualifiedName(ToLower(k))
    IN [n \in 1..Len(errors) |-> [key |-> k, msg |-> errors[n]]]

\* A loop body that stops at the first key with errors.
ValidateStep_ShortCircuit ==
    /\ annPc = "loop"
    /\ annTodo # {}
    /\ \E k \in annTodo :
         /\ annEs' = annEs \o KeyErrors(k)
         /\ IF KeyErrors(k) # <<>>
            THEN annTodo' = {} /\ annPc' = "returned"
            ELSE annTodo' = annTodo \ {k} /\ annPc' = annPc
    /\ UNCHANGED <<annIn, lifeVars, modeVars>>

\* one iteration of "for k := range m" (Go visits the keys in any order)
ValidateStep ==
    /\ annPc = "loop"
    /\ annTodo # {}
    /\ \E k \in annTodo :
         /\ annEs' = annEs \o KeyErrors(k)
         /\ annTodo' = annTodo \ {k}
    /\ UNCHANGED <<annIn, annPc, lifeVars, modeVars>>

\* the loop is over: return ws, es
ValidateReturn ==
    /\ annPc = "loop"
    /\ annTodo = {}
    /\ annPc' = "returned"
    /\ UNCHANGED <<annIn, annTodo, annEs, lifeVars, modeVars>>

(***************************************************************************)
(* Schema: configurations, defaults and validation                         *)
(***************************************************************************)

Instances == {"r1", "r2"}
Names == {"p", "q"}
MaxVersion == 2

\* An Optional attribute of the configuration is a set: {} when the
\* configuration does not set it, {v} when it sets it to v.
Default(opt, dflt) == IF opt = {} THEN dflt ELSE CHOOSE v \in opt : TRUE

\* defaultAttributes
DefaultBlockSize == 26
defaultAttributes ==
    [block_size |-> DefaultBlockSize, ipip_mode |-> "Never",
     vxlan_mode |-> "Never", nat_outgoing |-> FALSE, disabled |-> FALSE,
     disable_bgp_export |-> FALSE]

\* interface{} values of the annotation map as the framework holds them
StringValue(v) == [type |-> "string", val |-> v]
NoAnnotations == [k \in {} |-> StringValue("")]
OneAnnotation(k, v) == [x \in {k} |-> StringValue(v)]

CfgPlain ==
    [name |-> "p", cidr |-> "10.0.0.0/24", block_size |-> {},
     ipip_mode |-> {}, vxlan_mode |-> {}, nat_outgoing |-> {},
     disabled |-> {}, disable_bgp_export |-> {},
     annotations |-> NoAnnotations]
\* the same pool with IPIP, NAT and an annotation
CfgIPIP ==
    [CfgPlain EXCEPT !.ipip_mode = {"Always"}, !.nat_outgoing = {TRUE},
                     !.annotations = OneAnnotation(<<"a", "B">>, "v")]
\* the same name with another cidr
CfgMoved == [CfgPlain EXCEPT !.cidr = "10.1.0.0/24"]
\* the same name with another block size, VXLAN, disabled, not exported
CfgVXLAN ==
    [CfgPlain EXCEPT !.block_size = {27}, !.vxlan_mode = {"CrossSubnet"},
                     !.disabled = {TRUE}, !.disable_bgp_export = {TRUE}]
\* both modes set
CfgBoth ==
    [CfgPlain EXCEPT !.ipip_mode = {"Always"}, !.vxlan_mode = {"CrossSubnet"}]
\* a mode the schema does not list
CfgBadMode == [CfgPlain EXCEPT !.ipip_mode = {"always"}]
\* an annotation key that is no qualified name
CfgBadKey == [CfgPlain EXCEPT !.annotations = OneAnnotation(<<"-", "a">>, "v")]

\* another pool
CfgOther == [CfgPlain EXCEPT !.name = "q"]

ConfigSet ==
    {CfgPlain, CfgIPIP, CfgMoved, CfgVXLAN, CfgOther, CfgBoth, CfgBadMode,
     CfgBadKey}

\* validation.StringInSlice([]string{"Always", "CrossSubnet", "Never"}, false)
AllowedModeStrings == {"Always", "CrossSubnet", "Never"}

\* validateAnnotations as a function of the whole map: the errors of every
\* key (the order of the keys does not matter to whether there are any)
RECURSIVE AnnotationErrors(_, _)
AnnotationErrors(m, todo) ==
    IF todo = {} THEN <<>>
    ELSE LET k == CHOOSE x \in todo : TRUE
         IN KeyErrors(k) \o AnnotationErrors(m, todo \ {k})
validateAnnotations(m) == AnnotationErrors(m, DOMAIN m)

\* A schema whose mode attributes carry no ConflictsWith.
ConflictsWith_Missing(cfg) == FALSE

\* ConflictsWith of ipip_mode and vxlan_mode: an attribute that is set in
\* the configuration conflicts with the other one being set too
ConflictsWith(cfg) == cfg.ipip_mode # {} /\ cfg.vxlan_mode # {}

\* what the schema's validation reports for a configuration; <<>> when the
\* configuration is accepted
ValidateConfig(cfg) ==
    (IF ConflictsWith(cfg) THEN <<"ConflictsWith">> ELSE <<>>)
    \o (IF cfg.ipip_mode \subseteq AllowedModeStrings
           /\ cfg.vxlan_mode \subseteq AllowedModeStrings
        THEN <<>> ELSE <<"StringInSlice">>)
    \o (IF validateAnnotations(cfg.annotations) = <<>>
        THEN <<>> ELSE <<"validateAnnotations">>)

\* A schema in which cidr is not ForceNew.
ForceNewFields_NoCidr == {"name", "block_size"}

\* the attributes declared ForceNew: true
ForceNewFields == {"name", "cidr", "block_size"}

\* the resource data of an instance that is not in the Terraform state
NullData ==
    [id |-> "", name |-> "", resource_version |-> "",
     annotations |-> NoAnnotations, cidr |-> "", block_size |-> 0,
     ipip_mode |-> "", vxlan_mode |-> "", nat_outgoing |-> FALSE,
     disabled |-> FALSE, disable_bgp_export |-> FALSE]

\* what d.Get returns for a configuration: the configured value, or the
\* schema's Default; id and resource_version are computed, not configured
ConfigData(cfg) ==
    [id |-> "", name |-> cfg.name, resource_version |-> "",
     annotations |-> cfg.annotations, cidr |-> cfg.cidr,
     block_size |-> Default(cfg.block_size, defaultAttributes.block_size),
     ipip_mode |-> Default(cfg.ipip_mode, defaultAttributes.ipip_mode),
     vxlan_mode |-> Default(cfg.vxlan_mode, defaultAttributes.vxlan_mode),
     nat_outgoing |-> Default(cfg.nat_outgoing, defaultAttributes.nat_outgoing),
     disabled |-> Default(cfg.disabled, defaultAttributes.disabled),
     disable_bgp_export |->
         Default(cfg.disable_bgp_export, defaultAttributes.disable_bgp_export)]

(***************************************************************************)
(* Field translation                                                       *)
(***************************************************************************)

\* expandStringMap: result[k] = v.(string)
expandStringMap(m) == [k \in DOMAIN m |-> m[k].val]

\* the map[string]string of the object as d.Set stores it
flattenStringMap(m) == [k \in DOMAIN m |-> StringValue(m[k])]

\* A translation that leaves spec.BlockSize at its zero value.
setIPPoolAttributes_NoBlockSize(data) ==
    [Name |-> data.name,
     ResourceVersion |-> data.resource_version,
     Annotations |-> expandStringMap(data.annotations),
     Spec |-> [BlockSize |-> 0,
               CIDR |-> data.cidr,
               Disabled |-> data.disabled,
               IPIPMode |-> getIPIPMode(data.ipip_mode),
               VXLANMode |-> getVXLANMode(data.vxlan_mode),
               NATOutgoing |-> data.nat_outgoing,
               DisableBGPExport |-> data.disable_bgp_export]]

\* setIPPoolAttributes: the calicov3.IPPool built from the resource data
setIPPoolAttributes(data) ==
    [Name |-> data.name,
     ResourceVersion |-> data.resource_version,
     Annotations |-> expandStringMap(data.annotations),
     Spec |-> [BlockSize |-> data.block_size,
               CIDR |-> data.cidr,
               Disabled |-> data.disabled,
               IPIPMode |-> getIPIPMode(data.ipip_mode),
               VXLANMode |-> getVXLANMode(data.vxlan_mode),
               NATOutgoing |-> data.nat_outgoing,
               DisableBGPExport |-> data.disable_bgp_export]]

\* setResourceAttributes: SetId(r.Name), then every attribute from r
setResourceAttributes(data, r) ==
    [id |-> r.Name, name |-> r.Name,
     resource_version |-> r.ResourceVersion,
     annotations |-> flattenStringMap(r.Annotations),
     cidr |-> r.Spec.CIDR, block_size |-> r.Spec.BlockSize,
     ipip_mode |-> r.Spec.IPIPMode, vxlan_mode |-> r.Spec.VXLANMode,
     nat_outgoing |-> r.Spec.NATOutgoing, disabled |-> r.Spec.Disabled,
     disable_bgp_export |-> r.Spec.DisableBGPExport]

(***************************************************************************)
(* The remote store (the IPPools API of the clientset)                     *)
(***************************************************************************)

\* remote[n] is {} when no pool is named n, {object} otherwise
Absent == {}
Stored(n) == CHOOSE o \in remote[n] : TRUE
Version(v) == ToString(v)
NoError == <<>>
NoObject == {}

\* Every call may fail in transport, whatever the store holds.
TransportErrors == {"Unavailable"}

\* IPPools().Get(ctx, name): the possible (r, err)
RemoteGet(n) ==
    {[r |-> NoObject, err |-> <<e>>] : e \in TransportErrors}
    \cup (IF remote[n] = Absent
          THEN {[r |-> NoObject, err |-> <<"NotFound">>]}
          ELSE {[r |-> remote[n], err |-> NoError]})

\* IPPools().Create(ctx, &ippool): the possible (store, err); the store
\* stamps the object with a new resource version
RemoteCreate(o) ==
    {[store |-> remote, err |-> <<e>>, wrote |-> FALSE] : e \in TransportErrors}
    \cup (IF remote[o.Name] # Absent
          THEN {[store |-> remote, err |-> <<"AlreadyExists">>, wrote |-> FALSE]}
          ELSE IF nextRV > MaxVersion THEN {}
          ELSE {[store |-> [remote EXCEPT ![o.Name] =
                              {[o EXCEPT !.ResourceVersion = Version(nextRV)]}],
                 err |-> NoError, wrote |-> TRUE]})

\* IPPools().Update(ctx, &ippool): whole-object replace, refused unless the
\* submitted resource version is that of the stored object
RemoteUpdate(o) ==
    {[store |-> remote, err |-> <<e>>, wrote |-> FALSE] : e \in TransportErrors}
    \cup (IF remote[o.Name] = Absent
          THEN {[store |-> remote, err |-> <<"NotFound">>, wrote |-> FALSE]}
          ELSE IF Stored(o.Name).ResourceVersion # o.ResourceVersion
          THEN {[store |-> remote, err |-> <<"Conflict">>, wrote |-> FALSE]}
          ELSE IF nextRV > MaxVersion THEN {}
          ELSE {[store |-> [remote EXCEPT ![o.Name] =
                              {[o EXCEPT !.ResourceVersion = Version(nextRV)]}],
                 err |-> NoError, wrote |-> TRUE]})

\* IPPools().Delete(ctx, name): the possible (store, err)
RemoteDelete(n) ==
    {[store |-> remote, err |-> <<e>>, wrote |-> FALSE] : e \in TransportErrors}
    \cup (IF remote[n] = Absent
          THEN {[store |-> remote, err |-> <<"NotFound">>, wrote |-> FALSE]}
          ELSE {[store |-> [remote EXCEPT ![n] = Absent],
                 err |-> NoError, wrote |-> TRUE]})

\* m.GetCalicoConfiguration(): the client, or an error
GetCalicoConfiguration == {NoError, <<"ConfigError">>}

\* diag.FromErr
FromErr(err) == err

(***************************************************************************)
(* The handlers                                                            *)
(*                                                                         *)
(* pc: "idle"    no handler is running                                     *)
(*     "c_call" "u_call" "d_call"   Create / Update / Delete call in flight*)
(*     "e_wait" "e_get"     getIPPool called from Exists                   *)
(*     "r_wait" "r_get"     getIPPool called from Read                     *)
(*       (_wait: before m.Lock(); _get: Get in flight under the lock;      *)
(*        the answer, the deferred Unlock and the caller's next local      *)
(*        statements are one step)                                         *)
(*     "done"    the handler has returned diags to the framework           *)
(***************************************************************************)

NoFetch == [r |-> NoObject, err |-> NoError]
TheObject(s) == CHOOSE o \in s : TRUE

\* instances whose creation of name n is no longer undisturbed
Touch(f, n) ==
    [j \in Instances |->
        IF f[j] # {} /\ TheObject(f[j]).name = n THEN {} ELSE f[j]]

\* bookkeeping common to every handler entry
Enter(i, name, data) ==
    /\ op' = [op EXCEPT ![i] = name]
    /\ d' = [d EXCEPT ![i] = data]
    /\ dBefore' = [dBefore EXCEPT ![i] = data]
    /\ tookLock' = [tookLock EXCEPT ![i] = FALSE]
    /\ fetched' = [fetched EXCEPT ![i] = NoFetch]

\* the framework validates the configuration against the schema before it
\* calls any handler; a rejected configuration reaches none
ValidateReject(i, cfg) ==
    /\ pc[i] = "idle"
    /\ ValidateConfig(cfg) # <<>>
    /\ Enter(i, "validate", d[i])
    /\ diags' = [diags EXCEPT ![i] = ValidateConfig(cfg)]
    /\ pc' = [pc EXCEPT ![i] = "done"]
    /\ UNCHANGED <<modeVars, annVars, ippool, calls, fresh, remote, nextRV, lock>>

\* a handler that gets the client, builds its argument and issues one call:
\* the part of Create / Update / Delete up to the remote call
IssueCall(i, call, at, obj) ==
    \E c \in GetCalicoConfiguration :
        IF c # NoError
        THEN /\ diags' = [diags EXCEPT ![i] = FromErr(c)]
             /\ pc' = [pc EXCEPT ![i] = "done"]
             /\ ippool' = [ippool EXCEPT ![i] = {}]
             /\ calls' = [calls EXCEPT ![i] = <<>>]
        ELSE /\ diags' = [diags EXCEPT ![i] = NoError]
             /\ pc' = [pc EXCEPT ![i] = at]
             /\ ippool' = [ippool EXCEPT ![i] = obj]
             /\ calls' = [calls EXCEPT ![i] = <<call>>]

\* resourceIPPoolCreate up to IPPools().Create: called for an instance that
\* is not in the state, with the data of an accepted configuration
resourceIPPoolCreate(i, cfg) ==
    /\ pc[i] = "idle"
    /\ d[i].id = ""
    /\ ValidateConfig(cfg) = <<>>
    /\ Enter(i, "create", ConfigData(cfg))
    /\ IssueCall(i, "Create", "c_call", {setIPPoolAttributes(ConfigData(cfg))})
    /\ fresh' = [fresh EXCEPT ![i] = {}]
    /\ UNCHANGED <<modeVars, annVars, remote, nextRV, lock>>

\* A Create that sets the id before it looks at the error.
resourceIPPoolCreateReturn_IdFirst(i) ==
    /\ pc[i] = "c_call"
    /\ \E res \in RemoteCreate(TheObject(ippool[i])) :
         /\ remote' = res.store
         /\ nextRV' = IF res.wrote THEN nextRV + 1 ELSE nextRV
         /\ diags' = [diags EXCEPT ![i] = FromErr(res.err)]
         /\ d' = [d EXCEPT ![i].id = TheObject(ippool[i]).Name]
         /\ fresh' = IF res.wrote
                     THEN [Touch(fresh, TheObject(ippool[i]).Name)
                             EXCEPT ![i] = {dBefore[i]}]
                     ELSE fresh
    /\ pc' = [pc EXCEPT ![i] = "done"]
    /\ UNCHANGED <<modeVars, annVars, op, fetched, ippool, calls, tookLock, dBefore, lock>>

\* resourceIPPoolCreate from the answer of IPPools().Create
resourceIPPoolCreateReturn(i) ==
    /\ pc[i] = "c_call"
    /\ \E res \in RemoteCreate(TheObject(ippool[i])) :
         /\ remote' = res.store
         /\ nextRV' = IF res.wrote THEN nextRV + 1 ELSE nextRV
         /\ diags' = [diags EXCEPT ![i] = FromErr(res.err)]
         /\ d' = IF res.err # NoError
                 THEN d
                 ELSE [d EXCEPT ![i].id = TheObject(ippool[i]).Name]
         /\ fresh' = IF res.wrote
                     THEN [Touch(fresh, TheObject(ippool[i]).Name)
                             EXCEPT ![i] = {dBefore[i]}]
                     ELSE fresh
    /\ pc' = [pc EXCEPT ![i] = "done"]
    /\ UNCHANGED <<modeVars, annVars, op, fetched, ippool, calls, tookLock, dBefore, lock>>

\* the data of an in-place update: the planned configuration over the
\* state's computed attributes
PlannedData(data, cfg) ==
    [ConfigData(cfg) EXCEPT !.id = data.id,
                            !.resource_version = data.resource_version]

\* a change of a ForceNew attribute is planned as destroy-and-recreate
RequiresNew(data, cfg) ==
    \E f \in ForceNewFields : ConfigData(cfg)[f] # data[f]

\* resourceIPPoolUpdate up to IPPools().Update: called for an instance in
\* the state whose accepted configuration differs from the state in
\* attributes that are not ForceNew
resourceIPPoolUpdate(i, cfg) ==
    /\ pc[i] = "idle"
    /\ d[i].id # ""
    /\ ValidateConfig(cfg) = <<>>
    /\ ~RequiresNew(d[i], cfg)
    /\ PlannedData(d[i], cfg) # d[i]
    /\ Enter(i, "update", PlannedData(d[i], cfg))
    /\ IssueCall(i, "Update", "u_call",
                 {setIPPoolAttributes(PlannedData(d[i], cfg))})
    /\ fresh' = [fresh EXCEPT ![i] = {}]
    /\ UNCHANGED <<modeVars, annVars, remote, nextRV, lock>>

\* resourceIPPoolUpdate from the answer of IPPools().Update
resourceIPPoolUpdateReturn(i) ==
    /\ pc[i] = "u_call"
    /\ \E res \in RemoteUpdate(TheObject(ippool[i])) :
         /\ remote' = res.store
         /\ nextRV' = IF res.wrote THEN nextRV + 1 ELSE nextRV
         /\ diags' = [diags EXCEPT ![i] = FromErr(res.err)]
         /\ d' = IF res.err # NoError
                 THEN d
                 ELSE [d EXCEPT ![i].id = TheObject(ippool[i]).Name]
         /\ fresh' = IF res.wrote
                     THEN Touch(fresh, TheObject(ippool[i]).Name)
                     ELSE fresh
    /\ pc' = [pc EXCEPT ![i] = "done"]
    /\ UNCHANGED <<modeVars, annVars, op, fetched, ippool, calls, tookLock, dBefore, lock>>

\* resourceIPPoolDelete up to IPPools().Delete
resourceIPPoolDelete(i) ==
    /\ pc[i] = "idle"
    /\ d[i].id # ""
    /\ Enter(i, "delete", d[i])
    /\ IssueCall(i, "Delete", "d_call", {})
    /\ fresh' = [fresh EXCEPT ![i] = {}]
    /\ UNCHANGED <<modeVars, annVars, remote, nextRV, lock>>

\* A Delete that treats "not found" as success.
resourceIPPoolDeleteReturn_Swallow(i) ==
    /\ pc[i] = "d_call"
    /\ \E res \in RemoteDelete(d[i].name) :
         /\ remote' = res.store
         /\ diags' = [diags EXCEPT ![i] =
                        IF res.err = <<"NotFound">> THEN NoError
                        ELSE FromErr(res.err)]
         /\ fresh' = IF res.wrote THEN Touch(fresh, d[i].name) ELSE fresh
    /\ pc' = [pc EXCEPT ![i] = "done"]
    /\ UNCHANGED <<modeVars, annVars, op, d, fetched, ippool, calls, tookLock, dBefore, nextRV,
                   lock>>

\* resourceIPPoolDelete from the answer of IPPools().Delete
resourceIPPoolDeleteReturn(i) ==
    /\ pc[i] = "d_call"
    /\ \E res \in RemoteDelete(d[i].name) :
         /\ remote' = res.store
         /\ diags' = [diags EXCEPT ![i] = FromErr(res.err)]
         /\ fresh' = IF res.wrote THEN Touch(fresh, d[i].name) ELSE fresh
    /\ pc' = [pc EXCEPT ![i] = "done"]
    /\ UNCHANGED <<modeVars, annVars, op, d, fetched, ippool, calls, tookLock, dBefore, nextRV,
                   lock>>

\* Meta.Lock / Meta.Unlock: one mutual-exclusion lock for the process
MetaCanLock == lock = NoOne
MetaLock(i) == i
MetaUnlock == NoOne

\* resourceIPPoolRead entering resourceIPPoolExists, up to getIPPool
resourceIPPoolRead(i) ==
    /\ pc[i] = "idle"
    /\ d[i].id # ""
    /\ Enter(i, "read", d[i])
    /\ \E c \in GetCalicoConfiguration :
         IF c # NoError
         THEN /\ diags' = [diags EXCEPT ![i] = FromErr(c)]
              /\ pc' = [pc EXCEPT ![i] = "done"]
         ELSE /\ diags' = [diags EXCEPT ![i] = NoError]
              /\ pc' = [pc EXCEPT ![i] = "e_wait"]
    /\ ippool' = [ippool EXCEPT ![i] = {}]
    /\ calls' = [calls EXCEPT ![i] = <<>>]
    /\ UNCHANGED <<modeVars, annVars, fresh, remote, nextRV, lock>>

\* A getIPPool that issues the Get without taking the lock.
getIPPoolLock_NoLock(i) ==
    /\ pc[i] \in {"e_wait", "r_wait"}
    /\ calls' = [calls EXCEPT ![i] = Append(calls[i], "Get")]
    /\ pc' = [pc EXCEPT ![i] = IF pc[i] = "e_wait" THEN "e_get" ELSE "r_get"]
    /\ UNCHANGED <<modeVars, annVars, op, d, diags, fetched, ippool, tookLock, dBefore, fresh,
                   remote, nextRV, lock>>

\* getIPPool: m.Lock(), then IPPools().Get is issued
getIPPoolLock(i) ==
    /\ pc[i] \in {"e_wait", "r_wait"}
    /\ MetaCanLock
    /\ lock' = MetaLock(i)
    /\ tookLock' = [tookLock EXCEPT ![i] = TRUE]
    /\ calls' = [calls EXCEPT ![i] = Append(calls[i], "Get")]
    /\ pc' = [pc EXCEPT ![i] = IF pc[i] = "e_wait" THEN "e_get" ELSE "r_get"]
    /\ UNCHANGED <<modeVars, annVars, op, d, diags, fetched, ippool, dBefore, fresh, remote,
                   nextRV>>

\* resourceIPPoolExists: what it returns for getIPPool's (r, err)
resourceIPPoolExists(res) ==
    IF res.err = NoError
    THEN [exists |-> TRUE, err |-> NoError]
    ELSE [exists |-> FALSE, err |-> res.err]

\* IPPools().Get answers getIPPool, which returns to resourceIPPoolExists
\* (the deferred Unlock runs); Exists returns to resourceIPPoolRead, which
\* goes on up to its own getIPPool
resourceIPPoolExistsReturn(i) ==
    /\ pc[i] = "e_get"
    /\ lock' = MetaUnlock
    /\ \E res \in RemoteGet(d[i].name) :
         /\ fetched' = [fetched EXCEPT ![i] = res]
         /\ LET e == resourceIPPoolExists(res)
            IN IF e.err # NoError
               THEN /\ diags' = [diags EXCEPT ![i] = FromErr(e.err)]
                    /\ pc' = [pc EXCEPT ![i] = "done"]
                    /\ d' = d
               ELSE IF ~e.exists
               THEN /\ d' = [d EXCEPT ![i].id = ""]
                    /\ diags' = [diags EXCEPT ![i] = NoError]
                    /\ pc' = [pc EXCEPT ![i] = "done"]
               ELSE /\ d' = d
                    /\ \E c \in GetCalicoConfiguration :
                         IF c # NoError
                         THEN /\ diags' = [diags EXCEPT ![i] = FromErr(c)]
                              /\ pc' = [pc EXCEPT ![i] = "done"]
                         ELSE /\ diags' = diags
                              /\ pc' = [pc EXCEPT ![i] = "r_wait"]
    /\ UNCHANGED <<modeVars, annVars, op, ippool, calls, tookLock, dBefore,
                   fresh, remote, nextRV>>

\* A Read that handles a failed second fetch as "gone": clears the id and
\* returns no error.
resourceIPPoolReadReturn_ClearOnError(i) ==
    /\ pc[i] = "r_get"
    /\ lock' = MetaUnlock
    /\ \E res \in RemoteGet(d[i].name) :
         /\ fetched' = [fetched EXCEPT ![i] = res]
         /\ diags' = [diags EXCEPT ![i] = NoError]
         /\ d' = IF res.err # NoError
                 THEN [d EXCEPT ![i].id = ""]
                 ELSE [d EXCEPT ![i] =
                         setResourceAttributes(d[i], TheObject(res.r))]
    /\ pc' = [pc EXCEPT ![i] = "done"]
    /\ UNCHANGED <<modeVars, annVars, op, ippool, calls, tookLock, dBefore,
                   fresh, remote, nextRV>>

\* IPPools().Get answers getIPPool, which returns to resourceIPPoolRead
\* (the deferred Unlock runs), and Read ends: the error, or
\* setResourceAttributes
resourceIPPoolReadReturn(i) ==
    /\ pc[i] = "r_get"
    /\ lock' = MetaUnlock
    /\ \E res \in RemoteGet(d[i].name) :
         /\ fetched' = [fetched EXCEPT ![i] = res]
         /\ diags' = [diags EXCEPT ![i] = FromErr(res.err)]
         /\ d' = IF res.err # NoError
                 THEN d
                 ELSE [d EXCEPT ![i] =
                         setResourceAttributes(d[i], TheObject(res.r))]
    /\ pc' = [pc EXCEPT ![i] = "done"]
    /\ UNCHANGED <<modeVars, annVars, op, ippool, calls, tookLock, dBefore,
                   fresh, remote, nextRV>>

\* the framework takes the handler's result: a destroyed instance, a failed
\* creation and a read that cleared the id leave the state; everything
\* else is stored as the handler left it
Apply(i) ==
    /\ pc[i] = "done"
    /\ d' = [d EXCEPT ![i] =
               IF \/ op[i] = "delete" /\ diags[i] = NoError
                  \/ d[i].id = ""
               THEN NullData ELSE d[i]]
    /\ pc' = [pc EXCEPT ![i] = "idle"]
    /\ op' = [op EXCEPT ![i] = "none"]
    /\ diags' = [diags EXCEPT ![i] = NoError]
    /\ fetched' = [fetched EXCEPT ![i] = NoFetch]
    /\ ippool' = [ippool EXCEPT ![i] = {}]
    /\ calls' = [calls EXCEPT ![i] = <<>>]
    /\ tookLock' = [tookLock EXCEPT ![i] = FALSE]
    /\ dBefore' = [dBefore EXCEPT ![i] = NullData]
    /\ UNCHANGED <<modeVars, annVars, fresh, remote, nextRV, lock>>

\* another client of the remote API deletes a pool
ExternalDelete(n) ==
    /\ remote[n] # Absent
    /\ remote' = [remote EXCEPT ![n] = Absent]
    /\ fresh' = Touch(fresh, n)
    /\ UNCHANGED <<modeVars, annVars, pc, op, d, diags, fetched, ippool, calls, tookLock,
                   dBefore, nextRV, lock>>

(***************************************************************************)
(* Specifications                                                          *)
(***************************************************************************)

LifeIdle ==
    /\ pc = [i \in Instances |-> "idle"]
    /\ op = [i \in Instances |-> "none"]
    /\ d = [i \in Instances |-> NullData]
    /\ diags = [i \in Instances |-> NoError]
    /\ fetched = [i \in Instances |-> NoFetch]
    /\ ippool = [i \in Instances |-> {}]
    /\ calls = [i \in Instances |-> <<>>]
    /\ tookLock = [i \in Instances |-> FALSE]
    /\ dBefore = [i \in Instances |-> NullData]
    /\ fresh = [i \in Instances |-> {}]
    /\ remote = [n \in Names |-> Absent]
    /\ nextRV = 1
    /\ lock = NoOne

ModeIdle == modeIn = <<"", "">> /\ modeOut = <<Unset, Unset>>

AnnIdle ==
    /\ annIn = NoAnnotations
    /\ annTodo = {}
    /\ annEs = <<>>
    /\ annPc = "returned"

Init == LifeIdle /\ ModeIdle /\ AnnIdle

Next ==
    \/ \E i \in Instances, cfg \in ConfigSet : ValidateReject(i, cfg)
    \/ \E i \in Instances, cfg \in ConfigSet : resourceIPPoolCreate(i, cfg)
    \/ \E i \in Instances : resourceIPPoolCreateReturn(i)
    \/ \E i \in Instances, cfg \in ConfigSet : resourceIPPoolUpdate(i, cfg)
    \/ \E i \in Instances : resourceIPPoolUpdateReturn(i)
    \/ \E i \in Instances : resourceIPPoolDelete(i)
    \/ \E i \in Instances : resourceIPPoolDeleteReturn(i)
    \/ \E i \in Instances : resourceIPPoolRead(i)
    \/ \E i \in Instances : getIPPoolLock(i)
    \/ \E i \in Instances : resourceIPPoolExistsReturn(i)
    \/ \E i \in Instances : resourceIPPoolReadReturn(i)
    \/ \E i \in Instances : Apply(i)
    \/ \E n \in Names : ExternalDelete(n)

Spec == Init /\ [][Next]_vars

\* ---- ModeSpec: the two translations applied to a pair of strings, as
\* setIPPoolAttributes applies them to spec.0.ipip_mode and spec.0.vxlan_mode
ModeInit ==
    /\ LifeIdle /\ AnnIdle
    /\ modeIn \in ModeStrings \X ModeStrings
    /\ modeOut = <<Unset, Unset>>

TranslateIPIP ==
    /\ modeOut[1] = Unset
    /\ modeOut' = [modeOut EXCEPT ![1] = getIPIPMode(modeIn[1])]
    /\ UNCHANGED <<modeIn, lifeVars, annVars>>

TranslateVXLAN ==
    /\ modeOut[2] = Unset
    /\ modeOut' = [modeOut EXCEPT ![2] = getVXLANMode(modeIn[2])]
    /\ UNCHANGED <<modeIn, lifeVars, annVars>>

ModeNext == TranslateIPIP \/ TranslateVXLAN

ModeSpec == ModeInit /\ [][ModeNext]_vars

\* ---- AnnoSpec: validateAnnotations on every map of at most MaxKeys keys
KeySets ==
    {{}} \cup {{t[k] : k \in 1..MaxKeys} : t \in [1..MaxKeys -> Keys]}
AnnMaps == {[k \in K |-> StringValue("v")] : K \in KeySets}

AnnInit ==
    /\ LifeIdle /\ ModeIdle
    /\ annIn \in AnnMaps
    /\ annTodo = DOMAIN annIn
    /\ annEs = <<>>
    /\ annPc = "loop"

AnnNext == ValidateStep \/ ValidateReturn

AnnoSpec == AnnInit /\ [][AnnNext]_vars

(***************************************************************************)
(* Properties                                                              *)
(***************************************************************************)

Returned(i, name) == pc[i] = "done" /\ op[i] = name
InFlightGets == {i \in Instances : pc[i] \in {"e_get", "r_get"}}
InWriteCall == {i \in Instances : pc[i] \in {"c_call", "u_call", "d_call"}}
ErrorKeys == {annEs[k].key : k \in 1..Len(annEs)}
Offending(keys) == {k \in keys : IsQualifiedName(ToLower(k)) # <<>>}

\* C1: a Read whose fetch (the one made by Exists) fails as not-found ends
\* with the local id cleared and with empty diagnostics.
C1_ReadOfMissingClearsId ==
    \A i \in Instances :
        (Returned(i, "read") /\ calls[i] = <<"Get">>
            /\ fetched[i].err = <<"NotFound">>)
        => (d[i].id = "" /\ diags[i] = NoError)

\* C2: a Read that succeeds after a successful Create, with no write to
\* that name in between, leaves cidr, block_size and name as submitted to
\* Create, a non-empty resource_version, and the id equal to the name.
C2_CreateThenRead ==
    \A i \in Instances :
        (Returned(i, "read") /\ diags[i] = NoError /\ fresh[i] # {})
        => LET submitted == TheObject(fresh[i])
           IN /\ d[i].cidr = submitted.cidr
              /\ d[i].block_size = submitted.block_size
              /\ d[i].name = submitted.name
              /\ d[i].resource_version # ""
              /\ d[i].id = submitted.name

C2_Witness ==
    \E i \in Instances :
        /\ Returned(i, "read") /\ diags[i] = NoError /\ fresh[i] # {}
        /\ d[i].block_size = 27
        /\ dBefore[i].resource_version = ""

\* C3: at most one Get issued by getIPPool is in flight, and the instance
\* that issued it holds the lock; an instance whose Create, Update or
\* Delete call is in flight has not taken the lock.
C3_OneGetInFlight ==
    /\ Cardinality(InFlightGets) <= 1
    /\ \A i \in InFlightGets : lock = i
    /\ \A i \in InWriteCall : lock # i /\ ~tookLock[i]

C3_Witness ==
    \E i, j \in Instances :
        /\ i \in InFlightGets /\ j \in InWriteCall
        /\ d[i].name # d[j].name

\* C4: while Create, Update or Delete runs, and after it has returned an
\* error, the id is what it was when the handler was entered; Delete never
\* changes it; after a Create or Update that returned no error the id is
\* the pool name.
C4_FailureKeepsId ==
    \A i \in Instances :
        op[i] \in {"create", "update", "delete"}
        => /\ (pc[i] # "done" \/ diags[i] # NoError \/ op[i] = "delete")
                => d[i].id = dBefore[i].id
           /\ (pc[i] = "done" /\ diags[i] = NoError /\ op[i] # "delete")
                => (d[i].id = d[i].name /\ d[i].id # "")

C4_Witness ==
    \E i \in Instances :
        /\ Returned(i, "create") /\ diags[i] = <<"AlreadyExists">>
        /\ d[i].id = ""

\* C5: Delete issues the delete-by-name and nothing else, never takes the
\* lock, and when the name is absent remotely at the time of the call it
\* returns an error and leaves the remote store as it was.
C5_DeleteNoPreCheck ==
    /\ [](\A i \in Instances :
            op[i] = "delete"
            => /\ ~tookLock[i] /\ lock # i
               /\ calls[i] \in {<<>>, <<"Delete">>}
               /\ (calls[i] = <<>>) <=> (Returned(i, "delete")
                                           /\ diags[i] = <<"ConfigError">>))
    /\ [][\A i \in Instances :
            (pc[i] = "d_call" /\ pc'[i] = "done" /\ remote[d[i].name] = Absent)
            => (diags'[i] # NoError /\ remote' = remote)]_vars

C5_Witness ==
    \E i \in Instances :
        /\ Returned(i, "delete") /\ diags[i] = <<"NotFound">>
        /\ calls[i] = <<"Delete">>
        /\ d[i].id # ""
        /\ remote[d[i].name] = Absent

\* C6: each translation yields Always for exactly "Always", CrossSubnet for
\* exactly "CrossSubnet" and Never for every other string; it always yields
\* one of the three modes.
C6_ModeTranslation ==
    \A k \in {1, 2} :
        modeOut[k] # Unset
        => /\ modeOut[k] \in Modes
           /\ (modeOut[k] = ModeAlways) <=> (modeIn[k] = "Always")
           /\ (modeOut[k] = ModeCrossSubnet) <=> (modeIn[k] = "CrossSubnet")

C6_Witness ==
    /\ modeIn = <<"always", "">>
    /\ modeOut = <<ModeNever, ModeNever>>

\* C7: the keys named in the errors are exactly the offending keys among
\* those the loop has visited; once validateAnnotations has returned they
\* are all the offending keys of the map, and there are no errors exactly
\* when every key is valid.
C7_CollectsEveryKey ==
    /\ ErrorKeys = Offending((DOMAIN annIn) \ annTodo)
    /\ annPc = "returned"
         => /\ ErrorKeys = Offending(DOMAIN annIn)
            /\ (annEs = <<>>) <=> (Offending(DOMAIN annIn) = {})

C7_Witness ==
    /\ annPc = "returned"
    /\ Cardinality(DOMAIN annIn) = 2
    /\ Cardinality(ErrorKeys) = 2

\* C8: no Create or Update call is in flight with an object whose IPIP mode
\* and VXLAN mode are both other than Never, and no such object is stored.
C8_NeverBothModes ==
    /\ \A i \in Instances :
         pc[i] \in {"c_call", "u_call"}
         => /\ ippool[i] # {}
            /\ \/ TheObject(ippool[i]).Spec.IPIPMode = ModeNever
               \/ TheObject(ippool[i]).Spec.VXLANMode = ModeNever
    /\ \A n \in Names :
         remote[n] # Absent
         => \/ Stored(n).Spec.IPIPMode = ModeNever
            \/ Stored(n).Spec.VXLANMode = ModeNever

C8_Witness ==
    \E i \in Instances :
        /\ Returned(i, "validate")
        /\ diags[i] = <<"ConflictsWith">>
        /\ calls[i] = <<>>

\* C9: no step takes a stored pool to a stored pool with another cidr,
\* block size or name: an Update never changes them.
C9_CreationOnly ==
    [][\A n \in Names :
         (remote[n] # Absent /\ remote'[n] # Absent)
         => LET old == TheObject(remote[n])
                new == TheObject(remote'[n])
            IN /\ new.Spec.CIDR = old.Spec.CIDR
               /\ new.Spec.BlockSize = old.Spec.BlockSize
               /\ new.Name = old.Name]_vars

C9_Witness ==
    \E i \in Instances :
        /\ Returned(i, "update") /\ diags[i] = NoError
        /\ remote[d[i].name] # Absent
        /\ Stored(d[i].name).Spec.NATOutgoing
        /\ Stored(d[i].name).Spec.IPIPMode = ModeAlways
        /\ Stored(d[i].name).ResourceVersion = Version(2)

\* C10: Read holds the lock only inside getIPPool, so not between its two
\* fetches and not once it has returned; a Read that returns no error has
\* fetched twice; a Read whose second fetch fails returns that error and
\* leaves the id and every attribute as they were.
C10_ReadIsTwoFetches ==
    \A i \in Instances :
        /\ i \notin InFlightGets => lock # i
        /\ pc[i] = "r_wait" => calls[i] = <<"Get">>
        /\ (Returned(i, "read") /\ diags[i] = NoError)
             => calls[i] = <<"Get", "Get">>
        /\ (Returned(i, "read") /\ calls[i] = <<"Get", "Get">>
               /\ fetched[i].err # NoError)
             => (diags[i] = fetched[i].err /\ d[i] = dBefore[i])

C10_Witness ==
    \E i \in Instances :
        /\ Returned(i, "read")
        /\ calls[i] = <<"Get", "Get">>
        /\ fetched[i].err = <<"NotFound">>
        /\ diags[i] = <<"NotFound">>
        /\ d[i].id # ""

====
